---- MODULE Spec2Model ----
(***************************************************************************)
(* Model of BallWorld (src/logic.py): a frame-stepped 2D ball sandbox.     *)
(*                                                                         *)
(* Numbers.  The program computes with Python floats.  The model computes  *)
(* with integers: positions, velocities, radii and distances are whole     *)
(* units, and a colour component c in [0.0, 1.0] is the integer            *)
(* c * ColorOne.  Every comparison the code makes (<=, <, >) is made       *)
(* exactly.  A division or a square root whose real result is not on the   *)
(* grid is rounded toward zero (Div, ISqrt).                               *)
(*                                                                         *)
(* Precision.  A float holds a whole number exactly only up to a limit     *)
(* (2^53); beyond it a result is rounded to the nearest float, ties to     *)
(* even.  The model has the same law with the limit FloatExact: Fl(x) is   *)
(* the float nearest to x.  It is applied to the sums that place a ball    *)
(* and test it against the walls (_integrate, "bounce"); every other       *)
(* result of the model stays below the limit, where Fl changes nothing,    *)
(* and no result reaches twice the limit.                                  *)
(*                                                                         *)
(* Optional values.  Python's None is the empty tuple <<>>; a present      *)
(* pointer is <<x, y>>, a present rectangle <<x, y, w, h>>.  A keyword     *)
(* argument or dictionary key that the caller leaves out is a record       *)
(* field that is absent.                                                   *)
(*                                                                         *)
(* Object identity.  Every Ball the program constructs gets a field obj,   *)
(* the ordinal of its construction, standing for the identity of the       *)
(* Python object.  The program never reads it.                             *)
(***************************************************************************)
EXTENDS Integers, Sequences, FiniteSets, TLC

\* ------------------------------------------------------------------------
\* Bounds of the model
\* ------------------------------------------------------------------------
\* Balls constructed in one run (calls of add_ball / add_random_ball).
MaxBalls == 3
\* Calls of step in one run.
MaxSteps == 2
\* Balls added in one run of the boundary specification.
MaxBoundaryBalls == 1
\* Calls of step in one run of the boundary specification.
MaxBoundarySteps == 1
\* Balls added in one run of the bounce specification.
MaxBounceBalls == 1
\* Calls of step in one run of the bounce specification.
MaxBounceSteps == 3

\* ------------------------------------------------------------------------
\* Arithmetic helpers
\* ------------------------------------------------------------------------
None == <<>>

Max(a, b) == IF a >= b THEN a ELSE b

Min(a, b) == IF a <= b THEN a ELSE b

\* a / b for b > 0, rounded toward zero.
Div(a, b) == IF a >= 0 THEN a \div b ELSE -((-a) \div b)

\* Largest r with r * r <= n.
ISqrt(n) == CHOOSE r \in 0..n : r * r <= n /\ (r + 1) * (r + 1) > n

\* math.hypot on the grid.
Hypot(dx, dy) == ISqrt(dx * dx + dy * dy)

\* math.hypot(dx, dy) <= d, decided exactly.
HypotLeq(dx, dy, d) == d >= 0 /\ dx * dx + dy * dy <= d * d

\* math.hypot(dx, dy) > d, decided exactly.
HypotGt(dx, dy, d) == ~HypotLeq(dx, dy, d)

\* The magnitude from which on a float no longer holds every whole number:
\* from FloatExact to 2 * FloatExact the floats are the even numbers.
FloatExact == 1024

\* The float nearest to the value v, for v within 2 * FloatExact of zero:
\* v itself if it is a float; else v is odd and lies halfway between two
\* floats, and the tie goes to the one with the even mantissa, a multiple
\* of 4.
Nearest(v) ==
    IF v % 2 = 0 \/ (-FloatExact < v /\ v < FloatExact) THEN v
    ELSE IF (v - 1) % 4 = 0 THEN v - 1 ELSE v + 1

\* The float that holds the result x of an operation; x is evaluated once.
Fl(x) == CHOOSE y \in {Nearest(v) : v \in {x}} : TRUE

\* The integer that stands for the colour component 1.0.
ColorOne == 1024

\* ------------------------------------------------------------------------
\* The owned random source (random.Random): a deterministic generator with
\* a small state.  random() advances the state and returns
\* RngOut(state) / RngDen, a value in [0, 1).
\* ------------------------------------------------------------------------
RngMod == 8

RngDen == 4

RngNext(s) == (5 * s + 3) % RngMod

RngOut(s) == s \div (RngMod \div RngDen)

\* The state after n draws.
RECURSIVE RngAfter(_, _)
RngAfter(s, n) == IF n = 0 THEN s ELSE RngAfter(RngNext(s), n - 1)

\* The value of the n-th draw from state s (n >= 1), as a numerator over RngDen.
Draw(s, n) == RngOut(RngAfter(s, n))

\* rng.uniform(a, b) of a draw k: a + (b - a) * random().
Uniform(a, b, k) == a + Div((b - a) * k, RngDen)

\* (rng.random() - 0.5) * x of a draw k.
Centered(k, x) == Div((2 * k - RngDen) * x, 2 * RngDen)

\* ------------------------------------------------------------------------
\* Geometry/Color helpers
\* ------------------------------------------------------------------------
_circles_touch(p1, r1, p2, r2) ==
    LET dx == p2[1] - p1[1]
        dy == p2[2] - p1[2]
        rr == r1 + r2
    IN  dx * dx + dy * dy <= rr * rr

\* A _clamp_color that lets every value through.
ClampColorOff(c) == c

_clamp_color(c) ==
    << Max(0, Min(ColorOne, c[1])),
       Max(0, Min(ColorOne, c[2])),
       Max(0, Min(ColorOne, c[3])) >>

vivid_color_mix(c1, c2) ==
    LET r == Div(c1[1] + c2[1], 2)
        g == Div(c1[2] + c2[2], 2)
        b == Div(c1[3] + c2[3], 2)
    IN  _clamp_color(<<r, g, b>>)

\* ------------------------------------------------------------------------
\* Data
\* ------------------------------------------------------------------------
\* dataclass Ball, with the identity of the object.
Ball(obj, id, position, velocity, radius, color, mass) ==
    [obj |-> obj, id |-> id, position |-> position, velocity |-> velocity,
     radius |-> radius, color |-> color, mass |-> mass]

\* WorldEvents.emit: the log with one more event.
Emit(events, e) == Append(events, e)

\* InputState(): the defaults of the dataclass.
DefaultInputState ==
    [pointer |-> None, sucking_enabled |-> FALSE, suction_radius |-> 80,
     spit_requests |-> <<>>]

\* ------------------------------------------------------------------------
\* Pipeline stages.  Each is a function of the collections it reads.
\* ------------------------------------------------------------------------
\* 2) _apply_suction, for one ball.
SuckBall(b, pointer, radius, dt, cfg) ==
    LET dx == pointer[1] - b.position[1]
        dy == pointer[2] - b.position[2]
        dist == Hypot(dx, dy)
        \* falloff = max(0.05, 1.0 - dist / radius), as a fraction fnum / fden
        linear == 20 * (radius - dist) >= radius
        fnum == IF linear THEN radius - dist ELSE 1
        fden == IF linear THEN radius ELSE 20
        ax == Div(dx * cfg.suction_strength * fnum * dt, dist * fden)
        ay == Div(dy * cfg.suction_strength * fnum * dt, dist * fden)
    IN  IF (dx = 0 /\ dy = 0) \/ HypotGt(dx, dy, radius)
        THEN b
        ELSE [b EXCEPT !.velocity = <<b.velocity[1] + ax, b.velocity[2] + ay>>]

_apply_suction(balls, pointer, radius, dt, cfg) ==
    [i \in 1..Len(balls) |-> SuckBall(balls[i], pointer, radius, dt, cfg)]

\* 3) _integrate, for one ball.
IntegrateBall(b, dt, cfg) ==
    LET vx0 == b.velocity[1] + cfg.gravity[1] * dt
        vy0 == b.velocity[2] + cfg.gravity[2] * dt
        damp == Max(0, 1 - cfg.linear_damping * dt)
        vx1 == IF cfg.linear_damping > 0 THEN vx0 * damp ELSE vx0
        vy1 == IF cfg.linear_damping > 0 THEN vy0 * damp ELSE vy0
        clamped == cfg.max_speed > 0 /\ HypotGt(vx1, vy1, cfg.max_speed)
        speed == Hypot(vx1, vy1)
        vx == IF clamped THEN Div(vx1 * cfg.max_speed, speed) ELSE vx1
        vy == IF clamped THEN Div(vy1 * cfg.max_speed, speed) ELSE vy1
    IN  [b EXCEPT !.position = << Fl(b.position[1] + Fl(vx * dt)),
                                  Fl(b.position[2] + Fl(vy * dt)) >>,
                  !.velocity = <<vx, vy>>]

\* An _integrate that advances a full time unit whatever dt is.
IntegrateNoDt(balls, dt, cfg) ==
    [i \in 1..Len(balls) |-> IntegrateBall(balls[i], 1, cfg)]

_integrate(balls, dt, cfg) ==
    [i \in 1..Len(balls) |-> IntegrateBall(balls[i], dt, cfg)]

\* A wrap that tests the bare edges 0 and w, without the radius as margin.
WrapBallNoMargin(b, w, h) ==
    LET px == b.position[1]
        py == b.position[2]
        r == b.radius
        nx == IF px < 0 THEN w + r ELSE IF px > w THEN -r ELSE px
        ny == IF py < 0 THEN h + r ELSE IF py > h THEN -r ELSE py
    IN  [b EXCEPT !.position = <<nx, ny>>]

\* A wrap that shifts by the period w + 2r and so keeps the overshoot.
WrapBallModular(b, w, h) ==
    LET px == b.position[1]
        py == b.position[2]
        r == b.radius
        nx == IF px < -r THEN px + (w + 2 * r)
              ELSE IF px > w + r THEN px - (w + 2 * r) ELSE px
        ny == IF py < -r THEN py + (h + 2 * r)
              ELSE IF py > h + r THEN py - (h + 2 * r) ELSE py
    IN  [b EXCEPT !.position = <<nx, ny>>]

\* 4) _handle_boundaries, mode "wrap", for one ball.
WrapBall(b, w, h) ==
    LET px == b.position[1]
        py == b.position[2]
        r == b.radius
        nx == IF px < -r THEN w + r ELSE IF px > w + r THEN -r ELSE px
        ny == IF py < -r THEN h + r ELSE IF py > h + r THEN -r ELSE py
    IN  [b EXCEPT !.position = <<nx, ny>>]

\* 4) _handle_boundaries, mode "bounce", for one ball: four tests in sequence.
BounceBall(b, w, h) ==
    LET r == b.radius
        hitL == Fl(b.position[1] - r) < 0 /\ b.velocity[1] < 0
        px1 == IF hitL THEN r ELSE b.position[1]
        vx1 == IF hitL THEN -b.velocity[1] ELSE b.velocity[1]
        hitR == Fl(px1 + r) > w /\ vx1 > 0
        px2 == IF hitR THEN Fl(w - r) ELSE px1
        vx2 == IF hitR THEN -vx1 ELSE vx1
        hitT == Fl(b.position[2] - r) < 0 /\ b.velocity[2] < 0
        py1 == IF hitT THEN r ELSE b.position[2]
        vy1 == IF hitT THEN -b.velocity[2] ELSE b.velocity[2]
        hitB == Fl(py1 + r) > h /\ vy1 > 0
        py2 == IF hitB THEN Fl(h - r) ELSE py1
        vy2 == IF hitB THEN -vy1 ELSE vy1
    IN  [b EXCEPT !.position = <<px2, py2>>, !.velocity = <<vx2, vy2>>]

\* A clamp that applies the upper limit first and the lower limit last.
ClampBallLowerLast(b, w, h) ==
    LET px == Max(b.radius, Min(b.position[1], w - b.radius))
        py == Max(b.radius, Min(b.position[2], h - b.radius))
    IN  [b EXCEPT !.position = <<px, py>>]

\* 4) _handle_boundaries, any other mode, for one ball.
ClampBall(b, w, h) ==
    LET px == Min(Max(b.radius, b.position[1]), w - b.radius)
        py == Min(Max(b.radius, b.position[2]), h - b.radius)
    IN  [b EXCEPT !.position = <<px, py>>]

_handle_boundaries(balls, cfg) ==
    [i \in 1..Len(balls) |->
        IF cfg.boundary = "wrap" THEN WrapBall(balls[i], cfg.width, cfg.height)
        ELSE IF cfg.boundary = "bounce" THEN BounceBall(balls[i], cfg.width, cfg.height)
        ELSE ClampBall(balls[i], cfg.width, cfg.height)]

\* A rectangle test that is closed on the upper edges.
InZoneClosed(b, zone) ==
    /\ zone[1] <= b.position[1]
    /\ b.position[1] <= zone[1] + zone[3]
    /\ zone[2] <= b.position[2]
    /\ b.position[2] <= zone[2] + zone[4]

\* 5) _apply_deletion_zone: the half-open rectangle test of one ball.
InZone(b, zone) ==
    /\ zone[1] <= b.position[1]
    /\ b.position[1] < zone[1] + zone[3]
    /\ zone[2] <= b.position[2]
    /\ b.position[2] < zone[2] + zone[4]

DeletedEvents(gone) ==
    [i \in 1..Len(gone) |-> [type |-> "deleted", ball_id |-> gone[i].id]]

\* 5) _apply_deletion_zone: [balls, events] after the stage.
_apply_deletion_zone(balls, zone, events) ==
    IF zone = None
    THEN [balls |-> balls, events |-> events]
    ELSE LET In(b) == InZone(b, zone)
             Out(b) == ~InZone(b, zone)
         IN  [balls |-> SelectSeq(balls, Out),
              events |-> events \o DeletedEvents(SelectSeq(balls, In))]

\* original_color_by_id: a dict built in list order, so the last ball with an
\* id gives the entry of that id.
OriginalColorById(balls) ==
    [id \in {balls[k].id : k \in 1..Len(balls)} |->
        LET last == CHOOSE k \in 1..Len(balls) :
                        /\ balls[k].id = id
                        /\ \A m \in (k + 1)..Len(balls) : balls[m].id # id
        IN  balls[last].color]

\* 6) the scan of _apply_color_mixing from the pair (i, j) on: i ascending,
\* j > i ascending; colours are written to the live balls pair by pair.
RECURSIVE MixScan(_, _, _, _, _)
MixScan(i, j, balls, events, original) ==
    IF i > Len(balls) THEN [balls |-> balls, events |-> events]
    ELSE IF j > Len(balls) THEN MixScan(i + 1, i + 2, balls, events, original)
    ELSE IF _circles_touch(balls[i].position, balls[i].radius,
                           balls[j].position, balls[j].radius)
         THEN LET c_old_i == original[balls[i].id]
                  c_old_j == original[balls[j].id]
                  c_mix == vivid_color_mix(c_old_i, c_old_j)
              IN  MixScan(i, j + 1,
                          [balls EXCEPT ![i].color = c_mix, ![j].color = c_mix],
                          Emit(events, [type |-> "mixed",
                                        ball_ids |-> <<balls[i].id, balls[j].id>>,
                                        color_before |-> <<c_old_i, c_old_j>>,
                                        color_after |-> c_mix]),
                          original)
         ELSE MixScan(i, j + 1, balls, events, original)

\* 6) _apply_color_mixing: [balls, events] after the stage.
_apply_color_mixing(balls, events) ==
    IF Len(balls) <= 1
    THEN [balls |-> balls, events |-> events]
    ELSE MixScan(1, 2, balls, events, OriginalColorById(balls))

SuckedEvents(got) ==
    [i \in 1..Len(got) |-> [type |-> "sucked", ball_id |-> got[i].id]]

\* A capture test that leaves out a ball exactly at capture_distance.
CapturedStrict(b, pointer, cfg) ==
    LET dx == pointer[1] - b.position[1]
        dy == pointer[2] - b.position[2]
    IN  cfg.capture_distance > 0
        /\ dx * dx + dy * dy < cfg.capture_distance * cfg.capture_distance

\* 7) the capture test of one ball.
Captured(b, pointer, cfg) ==
    HypotLeq(pointer[1] - b.position[1], pointer[2] - b.position[2],
             cfg.capture_distance)

\* A capture that puts the captured balls in front of the inventory.
CaptureAtFront(balls, inventory, pointer, events, cfg) ==
    LET Near(b) == Captured(b, pointer, cfg)
        Far(b) == ~Captured(b, pointer, cfg)
    IN  [balls |-> SelectSeq(balls, Far),
         inventory |-> SelectSeq(balls, Near) \o inventory,
         events |-> events \o SuckedEvents(SelectSeq(balls, Near))]

\* 7) _capture_into_inventory: [balls, inventory, events] after the stage.
_capture_into_inventory(balls, inventory, pointer, events, cfg) ==
    LET Near(b) == Captured(b, pointer, cfg)
        Far(b) == ~Captured(b, pointer, cfg)
    IN  [balls |-> SelectSeq(balls, Far),
         inventory |-> inventory \o SelectSeq(balls, Near),
         events |-> events \o SuckedEvents(SelectSeq(balls, Near))]

\* req.get(key, default) for the four keys of a spit request.
ReqCount(req) == IF "count" \in DOMAIN req THEN req.count ELSE 1

ReqPosition(req, cfg) ==
    IF "position" \in DOMAIN req THEN req.position
    ELSE <<Div(cfg.width, 2), Div(cfg.height, 2)>>

ReqDirection(req) == IF "direction" \in DOMAIN req THEN req.direction ELSE <<1, 0>>

ReqSpeed(req) == IF "speed" \in DOMAIN req THEN req.speed ELSE 200

\* A count that is taken as given, without the floor of 1.
SpitCountNoFloor(req) == ReqCount(req)

\* count = int(max(1, req.get("count", 1)))
SpitCount(req) == Max(1, ReqCount(req))

\* 1) the loop of _handle_spit_request: n more balls leave the front of the
\* inventory.  w = [balls, inventory, rng, events].
RECURSIVE SpitLoop(_, _, _, _, _, _)
SpitLoop(n, w, pos, dir, mag, speed) ==
    IF n = 0 THEN w
    ELSE LET ball == Head(w.inventory)
             jx == Div(Centered(Draw(w.rng, 1), ball.radius), 2)
             jy == Div(Centered(Draw(w.rng, 2), ball.radius), 2)
             vx == Div(dir[1] * speed, mag) + Centered(Draw(w.rng, 3), 20)
             vy == Div(dir[2] * speed, mag) + Centered(Draw(w.rng, 4), 20)
             spat == [ball EXCEPT !.position = <<pos[1] + jx, pos[2] + jy>>,
                                  !.velocity = <<vx, vy>>]
         IN  SpitLoop(n - 1,
                      [balls |-> Append(w.balls, spat),
                       inventory |-> Tail(w.inventory),
                       rng |-> RngAfter(w.rng, 4),
                       events |-> Emit(w.events,
                                       [type |-> "spat", ball_id |-> spat.id,
                                        position |-> spat.position,
                                        velocity |-> spat.velocity])],
                      pos, dir, mag, speed)

\* 1) _handle_spit_request.
_handle_spit_request(req, w, cfg) ==
    LET count == SpitCount(req)
        dir0 == ReqDirection(req)
        zero == dir0[1] = 0 /\ dir0[2] = 0
        dir == IF zero THEN <<1, 0>> ELSE dir0
        mag == IF zero THEN 1 ELSE Hypot(dir0[1], dir0[2])
    IN  SpitLoop(Min(count, Len(w.inventory)), w, ReqPosition(req, cfg),
                 dir, mag, ReqSpeed(req))

\* 1) for req in inputs.spit_requests: the requests in list order.
RECURSIVE HandleSpitRequests(_, _, _)
HandleSpitRequests(reqs, w, cfg) ==
    IF reqs = <<>> THEN w
    ELSE HandleSpitRequests(Tail(reqs), _handle_spit_request(Head(reqs), w, cfg), cfg)

\* A step that leaves the request list of its InputState as it found it.
KeepRequests(inputs) == inputs

\* inputs.spit_requests.clear(): the InputState object after the spit stage.
ClearRequests(inputs) == [inputs EXCEPT !.spit_requests = <<>>]

\* A step that runs the capture stage before the deletion zone and the
\* colour mixing.
StepTraceCaptureFirst(balls0, inventory0, rng0, zone, dt, inputs, cfg) ==
    LET w0 == [balls |-> balls0, inventory |-> inventory0, rng |-> rng0,
               events |-> <<>>]
        s1 == IF inputs.spit_requests # <<>>
              THEN HandleSpitRequests(inputs.spit_requests, w0, cfg)
              ELSE w0
        vacuum == inputs.sucking_enabled /\ inputs.pointer # None
        s2 == IF vacuum
              THEN _apply_suction(s1.balls, inputs.pointer, inputs.suction_radius,
                                  dt, cfg)
              ELSE s1.balls
        s3 == _integrate(s2, dt, cfg)
        s4 == _handle_boundaries(s3, cfg)
        s7 == IF vacuum
              THEN _capture_into_inventory(s4, s1.inventory, inputs.pointer,
                                           s1.events, cfg)
              ELSE [balls |-> s4, inventory |-> s1.inventory, events |-> s1.events]
        s5 == _apply_deletion_zone(s7.balls, zone, s7.events)
        s6 == _apply_color_mixing(s5.balls, s5.events)
    IN  [op |-> "step", dt |-> dt, inputs |-> inputs,
         inputs_after |-> IF inputs.spit_requests # <<>>
                          THEN ClearRequests(inputs)
                          ELSE inputs,
         given |-> inputs, reused |-> FALSE,
         zone |-> zone,
         pre_balls |-> balls0, pre_inventory |-> inventory0,
         spit_balls |-> s1.balls, spit_inventory |-> s1.inventory,
         integrate |-> s3, boundaries |-> s4,
         deletion |-> s5.balls, mixing |-> s6.balls,
         balls |-> s6.balls, inventory |-> s7.inventory, rng |-> s1.rng,
         events |-> s6.events]

\* ------------------------------------------------------------------------
\* step(dt, inputs): the seven stages in order, as a record of what each
\* stage leaves behind.  events is the returned WorldEvents log.
\* ------------------------------------------------------------------------
StepTrace(balls0, inventory0, rng0, zone, dt, inputs, cfg) ==
    LET w0 == [balls |-> balls0, inventory |-> inventory0, rng |-> rng0,
               events |-> <<>>]
        s1 == IF inputs.spit_requests # <<>>
              THEN HandleSpitRequests(inputs.spit_requests, w0, cfg)
              ELSE w0
        vacuum == inputs.sucking_enabled /\ inputs.pointer # None
        s2 == IF vacuum
              THEN _apply_suction(s1.balls, inputs.pointer, inputs.suction_radius,
                                  dt, cfg)
              ELSE s1.balls
        s3 == _integrate(s2, dt, cfg)
        s4 == _handle_boundaries(s3, cfg)
        s5 == _apply_deletion_zone(s4, zone, s1.events)
        s6 == _apply_color_mixing(s5.balls, s5.events)
        s7 == IF vacuum
              THEN _capture_into_inventory(s6.balls, s1.inventory, inputs.pointer,
                                           s6.events, cfg)
              ELSE [balls |-> s6.balls, inventory |-> s1.inventory,
                    events |-> s6.events]
    IN  [op |-> "step", dt |-> dt, inputs |-> inputs,
         inputs_after |-> IF inputs.spit_requests # <<>>
                          THEN ClearRequests(inputs)
                          ELSE inputs,
         given |-> inputs, reused |-> FALSE,
         zone |-> zone,
         pre_balls |-> balls0, pre_inventory |-> inventory0,
         spit_balls |-> s1.balls, spit_inventory |-> s1.inventory,
         integrate |-> s3, boundaries |-> s4,
         deletion |-> s5.balls, mixing |-> s6.balls,
         balls |-> s7.balls, inventory |-> s7.inventory, rng |-> s1.rng,
         events |-> s7.events]

\* ------------------------------------------------------------------------
\* Inputs of the model
\* ------------------------------------------------------------------------
\* WorldConfig: one configuration per boundary mode.
Configs ==
    { [width |-> 64, height |-> 64, boundary |-> "wrap", linear_damping |-> 0,
       gravity |-> <<0, 0>>, suction_strength |-> 10, capture_distance |-> 12,
       max_speed |-> 0],
      [width |-> 64, height |-> 64, boundary |-> "bounce", linear_damping |-> 1,
       gravity |-> <<0, 4>>, suction_strength |-> 10, capture_distance |-> 12,
       max_speed |-> 0],
      [width |-> 64, height |-> 64, boundary |-> "clamp", linear_damping |-> 0,
       gravity |-> <<0, 0>>, suction_strength |-> 10, capture_distance |-> 12,
       max_speed |-> 6] }

Seeds == {0}

\* Arguments of add_ball.  velocity, mass and ball_id are optional.
AddInputs ==
    { [position |-> <<32, 32>>, radius |-> 8, color |-> <<ColorOne, 0, 0>>],
      [position |-> <<44, 32>>, radius |-> 4,
       color |-> <<0, 2 * ColorOne, -ColorOne>>, velocity |-> <<4, 0>>, mass |-> 2],
      [position |-> <<48, 32>>, radius |-> 8, color |-> <<0, 0, ColorOne>>,
       ball_id |-> 3] }

\* Arguments of add_random_ball.
RadiusRanges == { <<4, 8>> }

\* Arguments of remove_ball_by_id.
RemoveIds == {1, 3}

\* Arguments of set_deletion_zone.
Zones == { None, <<32, 24, 16, 16>> }

\* Arguments of step.
Dts == {0, 1}

Pointer == <<32, 32>>

StepInputs ==
    { DefaultInputState,
      [pointer |-> Pointer, sucking_enabled |-> TRUE, suction_radius |-> 24,
       spit_requests |-> <<>>],
      [pointer |-> Pointer, sucking_enabled |-> FALSE, suction_radius |-> 24,
       spit_requests |-> << [count |-> 2, position |-> <<16, 48>>,
                             direction |-> <<0, 0>>, speed |-> 8] >>],
      [pointer |-> Pointer, sucking_enabled |-> TRUE, suction_radius |-> 24,
       spit_requests |-> << [count |-> 0, position |-> <<32, 36>>,
                             direction |-> <<0, -2>>, speed |-> 0],
                            [speed |-> 4] >>] }

\* ------------------------------------------------------------------------
\* State
\* ------------------------------------------------------------------------
VARIABLES
    config,          \* self.config
    rng,             \* self._rng
    next_id,         \* self._next_id
    deletion_zone,   \* self._deletion_zone
    balls,           \* self._balls
    inventory,       \* self._inventory
    next_obj,        \* history: number of Ball objects constructed, plus one
    ever_ids,        \* history: the ids of all Ball objects constructed
    steps,           \* history: number of step calls made
    last             \* history: the stages of the last call, if it was a step;
                     \* its argument and result, if it was remove_ball_by_id

vars == <<config, rng, next_id, deletion_zone, balls, inventory,
          next_obj, ever_ids, steps, last>>

\* The value of last after a call that is not a step.
NoStep == [op |-> "other"]

\* BallWorld.__init__
Init ==
    /\ config \in Configs
    /\ rng \in Seeds
    /\ next_id = 1
    /\ deletion_zone = None
    /\ balls = <<>>
    /\ inventory = <<>>
    /\ next_obj = 1
    /\ ever_ids = {}
    /\ steps = 0
    /\ last = NoStep

\* _next_and_increment_id: the id handed out.
_next_and_increment_id(nid) == nid

\* add_ball, after the defaults of its arguments are filled in.  fresh says
\* that ball_id was None.
add_ball(position, radius, color, velocity, mass, fresh, ball_id) ==
    LET id == IF fresh THEN _next_and_increment_id(next_id) ELSE ball_id
        ball == Ball(next_obj, id, position, velocity, radius, _clamp_color(color),
                     mass)
    IN  /\ next_id' = IF fresh THEN next_id + 1 ELSE next_id
        /\ balls' = Append(balls, ball)
        /\ next_obj' = next_obj + 1
        /\ ever_ids' = ever_ids \cup {id}
        /\ last' = NoStep
        /\ UNCHANGED <<config, deletion_zone, inventory, steps>>

AddBall(a) ==
    /\ next_obj <= MaxBalls
    /\ add_ball(a.position, a.radius, a.color,
                IF "velocity" \in DOMAIN a THEN a.velocity ELSE <<0, 0>>,
                IF "mass" \in DOMAIN a THEN a.mass ELSE 1,
                "ball_id" \notin DOMAIN a,
                IF "ball_id" \in DOMAIN a THEN a.ball_id ELSE 0)
    /\ UNCHANGED rng

AddRandomBall(range) ==
    /\ next_obj <= MaxBalls
    /\ LET r == Uniform(range[1], range[2], Draw(rng, 1))
           x == Uniform(r, config.width - r, Draw(rng, 2))
           y == Uniform(r, config.height - r, Draw(rng, 3))
           vx == Uniform(-60, 60, Draw(rng, 4))
           vy == Uniform(-60, 60, Draw(rng, 5))
           color == << Div(Draw(rng, 6) * ColorOne, RngDen),
                       Div(Draw(rng, 7) * ColorOne, RngDen),
                       Div(Draw(rng, 8) * ColorOne, RngDen) >>
       IN  add_ball(<<x, y>>, r, color, <<vx, vy>>, 1, TRUE, 0)
    /\ rng' = RngAfter(rng, 8)

\* A removal that takes the last ball with the id instead of the first.
RemoveLastMatch(bs, ball_id) ==
    LET hits == {i \in 1..Len(bs) : bs[i].id = ball_id}
        final == CHOOSE i \in hits : \A k \in hits : i >= k
    IN  IF hits = {}
        THEN [balls |-> bs, returned |-> None]
        ELSE [balls |-> SubSeq(bs, 1, final - 1) \o SubSeq(bs, final + 1, Len(bs)),
              returned |-> bs[final]]

\* remove_ball_by_id on the active collection bs: the collection after the
\* call and the value the call returns.
remove_ball_by_id(bs, ball_id) ==
    LET hits == {i \in 1..Len(bs) : bs[i].id = ball_id}
        first == CHOOSE i \in hits : \A k \in hits : i <= k
    IN  IF hits = {}
        THEN [balls |-> bs, returned |-> None]
        ELSE [balls |-> SubSeq(bs, 1, first - 1) \o SubSeq(bs, first + 1, Len(bs)),
              returned |-> bs[first]]

RemoveBallById(ball_id) ==
    /\ balls' = remove_ball_by_id(balls, ball_id).balls
    /\ last' = [op |-> "remove", ball_id |-> ball_id,
                returned |-> remove_ball_by_id(balls, ball_id).returned]
    /\ UNCHANGED <<config, rng, next_id, deletion_zone, inventory,
                   next_obj, ever_ids, steps>>

SetDeletionZone(rect) ==
    /\ deletion_zone' = rect
    /\ last' = NoStep
    /\ UNCHANGED <<config, rng, next_id, balls, inventory, next_obj, ever_ids,
                   steps>>

\* A new InputState object passed to step.
NewInputs(i) == [inputs |-> i, given |-> i, reused |-> FALSE]

\* The InputState objects a call of step can be passed: one the caller
\* builds for the call, or the object that the call before, a step, was
\* passed and the caller kept (given is that object as the caller built
\* it).  A kept object built without spit requests is left out: a step
\* cannot tell it from a new object with the same fields.
StepArgs ==
    {NewInputs(i) : i \in StepInputs}
    \cup (IF last.op = "step" /\ last.given.spit_requests # <<>>
          THEN {[inputs |-> last.inputs_after, given |-> last.given,
                 reused |-> TRUE]}
          ELSE {})

\* step(dt, inputs) on the world as it is.
step(dt, arg) ==
    /\ LET t == StepTrace(balls, inventory, rng, deletion_zone, dt, arg.inputs,
                          config)
       IN  /\ balls' = t.balls
           /\ inventory' = t.inventory
           /\ rng' = t.rng
           /\ last' = [t EXCEPT !.given = arg.given, !.reused = arg.reused]
    /\ steps' = steps + 1
    /\ UNCHANGED <<config, next_id, deletion_zone, next_obj, ever_ids>>

Step(dt, arg) ==
    /\ steps < MaxSteps
    /\ step(dt, arg)

Next ==
    \/ \E a \in AddInputs : AddBall(a)
    \/ \E range \in RadiusRanges : AddRandomBall(range)
    \/ \E id \in RemoveIds : RemoveBallById(id)
    \/ \E rect \in Zones : SetDeletionZone(rect)
    \/ \E dt \in Dts : \E arg \in StepArgs : Step(dt, arg)

Spec == Init /\ [][Next]_vars

\* ------------------------------------------------------------------------
\* The boundary specification: the same program, driven with inputs that
\* exercise _handle_boundaries: a small world, every boundary mode (three
\* of them unrecognised), balls placed on, inside and beyond every edge
\* and margin, one of them wider than the world.
\* ------------------------------------------------------------------------
BoundaryModes == {"wrap", "bounce", "clamp", "Wrap", ""}

\* One configuration per mode; gravity acts under "bounce" and "Wrap".
BoundaryConfigs ==
    { [width |-> 16, height |-> 24, boundary |-> m, linear_damping |-> 0,
       gravity |-> IF m \in {"bounce", "Wrap"} THEN <<0, 2>> ELSE <<0, 0>>,
       suction_strength |-> 10, capture_distance |-> 12,
       max_speed |-> 0] : m \in BoundaryModes }

BoundaryCoords == {-13, -12, -5, -4, 3, 4, 8, 12, 13, 20, 21, 28, 29, 36, 37}

\* Arguments of add_ball.
BoundaryAdds ==
    { [position |-> p, radius |-> r, color |-> <<ColorOne, 0, 0>>, velocity |-> v] :
        p \in {<<c, c>> : c \in BoundaryCoords}
               \cup {<<8, c>> : c \in {-13, 29}},
        r \in {4, 12},
        v \in {<<0, 0>>, <<-6, -6>>, <<6, 6>>} }

InitBoundary ==
    /\ config \in BoundaryConfigs
    /\ rng \in Seeds
    /\ next_id = 1
    /\ deletion_zone = None
    /\ balls = <<>>
    /\ inventory = <<>>
    /\ next_obj = 1
    /\ ever_ids = {}
    /\ steps = 0
    /\ last = NoStep

AddBoundaryBall(a) ==
    /\ next_obj <= MaxBoundaryBalls
    /\ AddBall(a)

\* step(dt): inputs is None, so the step runs with InputState().
StepNoInputs(dt) ==
    /\ steps < MaxBoundarySteps
    /\ Step(dt, NewInputs(DefaultInputState))

NextBoundary ==
    \/ \E a \in BoundaryAdds : AddBoundaryBall(a)
    \/ \E dt \in Dts : StepNoInputs(dt)

BoundarySpec == InitBoundary /\ [][NextBoundary]_vars

\* ------------------------------------------------------------------------
\* The bounce specification: the same program in mode "bounce", driven over
\* several steps with balls that fit the world and are added with their
\* centre in [radius, width - radius] x [radius, height - radius], with
\* gravity, damping, a speed limit and a vacuum, and without spit requests.
\* One world is so wide that the sum of a position at its right wall and a
\* radius is beyond FloatExact.
\* ------------------------------------------------------------------------
BounceConfigs ==
    { [width |-> 16, height |-> 24, boundary |-> "bounce", linear_damping |-> 0,
       gravity |-> <<0, 2>>, suction_strength |-> 10, capture_distance |-> 2,
       max_speed |-> 0],
      [width |-> 16, height |-> 24, boundary |-> "bounce", linear_damping |-> 1,
       gravity |-> <<-3, 0>>, suction_strength |-> 10, capture_distance |-> 2,
       max_speed |-> 0],
      [width |-> 16, height |-> 24, boundary |-> "bounce", linear_damping |-> 0,
       gravity |-> <<2, -2>>, suction_strength |-> 10, capture_distance |-> 2,
       max_speed |-> 5],
      [width |-> FloatExact, height |-> 24, boundary |-> "bounce",
       linear_damping |-> 0, gravity |-> <<0, 2>>, suction_strength |-> 10,
       capture_distance |-> 2, max_speed |-> 0] }

\* Centres of balls of radius 4 and of radius 8 (as wide as the world).
BounceCentres(r) ==
    IF r = 4 THEN {<<4, 4>>, <<12, 20>>, <<8, 12>>} ELSE {<<8, 8>>, <<8, 16>>}

\* Arguments of add_ball in the world cfg: balls near the left wall, and
\* balls that touch the right wall from inside.
BounceAdds(cfg) ==
    { [position |-> a.p, radius |-> a.r, color |-> <<ColorOne, 0, 0>>, velocity |-> v] :
        a \in {[p |-> p, r |-> r] : p \in BounceCentres(4), r \in {4}}
               \cup {[p |-> p, r |-> r] : p \in BounceCentres(8), r \in {8}},
        v \in {<<0, 0>>, <<-6, -6>>, <<20, 30>>} }
    \cup
    { [position |-> <<cfg.width - r, 12>>, radius |-> r, color |-> <<ColorOne, 0, 0>>,
       velocity |-> v] :
        r \in {4, 8}, v \in {<<1, 0>>, <<-6, -6>>} }

\* Arguments of step: no inputs, a vacuum whose pointer lies beyond the left
\* wall, a vacuum whose pointer lies at the centre of the world.
BounceInputs ==
    { DefaultInputState,
      [pointer |-> <<-8, 12>>, sucking_enabled |-> TRUE, suction_radius |-> 40,
       spit_requests |-> <<>>],
      [pointer |-> <<8, 12>>, sucking_enabled |-> TRUE, suction_radius |-> 40,
       spit_requests |-> <<>>] }

BounceDts == {0, 1, 2}

InitBounce ==
    /\ config \in BounceConfigs
    /\ rng \in Seeds
    /\ next_id = 1
    /\ deletion_zone = None
    /\ balls = <<>>
    /\ inventory = <<>>
    /\ next_obj = 1
    /\ ever_ids = {}
    /\ steps = 0
    /\ last = NoStep

AddBounceBall(a) ==
    /\ next_obj <= MaxBounceBalls
    /\ AddBall(a)

AddBounceRandomBall(range) ==
    /\ next_obj <= MaxBounceBalls
    /\ AddRandomBall(range)

StepBounce(dt, i) ==
    /\ steps < MaxBounceSteps
    /\ step(dt, NewInputs(i))

NextBounce ==
    \/ \E a \in BounceAdds(config) : AddBounceBall(a)
    \/ \E range \in RadiusRanges : AddBounceRandomBall(range)
    \/ \E dt \in BounceDts : \E i \in BounceInputs : StepBounce(dt, i)

BounceSpec == InitBounce /\ [][NextBounce]_vars

\* ------------------------------------------------------------------------
\* Views of the state used by the properties
\* ------------------------------------------------------------------------
\* Every ball the world holds: the active collection, then the inventory.
AllBalls == balls \o inventory

Ids(s) == {s[i].id : i \in 1..Len(s)}

Objs(s) == {s[i].obj : i \in 1..Len(s)}

IdSeq(s) == [i \in 1..Len(s) |-> s[i].id]

Stepped == last.op = "step"

EventsOfType(t) ==
    LET Is(e) == e.type = t
    IN  SelectSeq(last.events, Is)

\* The ball ids of the events of one type, in log order.
EventIds(t) == [i \in 1..Len(EventsOfType(t)) |-> EventsOfType(t)[i].ball_id]

\* ------------------------------------------------------------------------
\* C1.  After any sequence of calls no two balls of the active collection
\* and the inventory together have the same id.
\* Fails: add_ball takes the id from its caller when ball_id is given.
\* ------------------------------------------------------------------------
C1_UniqueIds ==
    \A i, j \in 1..Len(AllBalls) : i # j => AllBalls[i].id # AllBalls[j].id

\* ------------------------------------------------------------------------
\* C2.  A step conserves ids except for deletion: the ids held after the
\* step are the ids held before it minus the ids of its deleted events, and
\* no id is in both the active collection and the inventory.
\* Fails once two balls share an id (C1).
\* ------------------------------------------------------------------------
C2_StepConservesIds ==
    Stepped =>
        LET before == Ids(last.pre_balls) \cup Ids(last.pre_inventory)
            deleted == {e.ball_id : e \in {EventsOfType("deleted")[k] :
                                            k \in 1..Len(EventsOfType("deleted"))}}
        IN  /\ Ids(balls) \cup Ids(inventory) = before \ deleted
            /\ Ids(balls) \cap Ids(inventory) = {}

\* ------------------------------------------------------------------------
\* C3.  Every ball that add_ball / add_random_ball returns has an id that is
\* positive, greater than every id given to a ball before, and the id of no
\* ball that ever existed.
\* Fails: an id passed as ball_id is taken as it is.
\* ------------------------------------------------------------------------
C3_FreshId ==
    [][next_obj' = next_obj + 1 =>
          LET id == balls'[Len(balls')].id
          IN  /\ id > 0
              /\ id \notin ever_ids
              /\ \A old \in ever_ids : id > old]_vars

\* ------------------------------------------------------------------------
\* C4.  Spit is FIFO and capped.
\* ------------------------------------------------------------------------
\* What the spit stage of the last step did, if it spat k balls in all: the
\* first k balls of the inventory left it, in order, and stand at the end of
\* the active collection in that order, changed in position and velocity
\* only; one spat event each, in that order; the balls that were active are
\* untouched and the rest of the inventory keeps its order.
SpitTookFront(k) ==
    LET inv == last.pre_inventory
        n == Len(last.pre_balls)
    IN  /\ k \in 0..Len(inv)
        /\ last.spit_inventory = SubSeq(inv, k + 1, Len(inv))
        /\ Len(last.spit_balls) = n + k
        /\ SubSeq(last.spit_balls, 1, n) = last.pre_balls
        /\ \A i \in 1..k :
              LET was == inv[i]
                  now == last.spit_balls[n + i]
              IN  now = [was EXCEPT !.position = now.position,
                                    !.velocity = now.velocity]
        /\ EventIds("spat") = IdSeq(SubSeq(inv, 1, k))

\* The balls that the requests spit from n balls when each request, in list
\* order, takes min(count, balls left).
RECURSIVE SpitTotalAsGiven(_, _)
SpitTotalAsGiven(reqs, n) ==
    IF reqs = <<>> THEN 0
    ELSE LET k == Min(ReqCount(Head(reqs)), n)
         IN  k + SpitTotalAsGiven(Tail(reqs), n - k)

\* The same when each request takes min(max(1, count), balls left).
RECURSIVE SpitTotalFloored(_, _)
SpitTotalFloored(reqs, n) ==
    IF reqs = <<>> THEN 0
    ELSE LET k == Min(Max(1, ReqCount(Head(reqs))), n)
         IN  k + SpitTotalFloored(Tail(reqs), n - k)

\* C4 as stated: each request spits exactly min(count, inventory size) balls
\* from the front of the inventory, FIFO, one spat event per ball.
\* Fails: a request with count 0 spits one ball.
C4_SpitMinCount ==
    Stepped =>
        SpitTookFront(SpitTotalAsGiven(last.inputs.spit_requests,
                                       Len(last.pre_inventory)))

\* C4 amended: each request, in list order, spits exactly
\* min(max(1, count), inventory size) balls (a missing count is 1) from the
\* front of the inventory, in inventory order, to the end of the active
\* collection, one spat event per ball; the rest of the inventory keeps its
\* order.
C4_SpitFifoCapped ==
    Stepped =>
        SpitTookFront(SpitTotalFloored(last.inputs.spit_requests,
                                       Len(last.pre_inventory)))

\* Two balls were spat in inventory order and a ball was left behind.
C4_Witness ==
    /\ Stepped
    /\ Len(EventsOfType("spat")) >= 2
    /\ Len(last.spit_inventory) >= 1
    /\ last.pre_inventory[1].id # last.pre_inventory[2].id

\* ------------------------------------------------------------------------
\* C5.  Capture stage: with suction enabled and a pointer present, an active
\* ball goes to the inventory iff its distance to the pointer is at most
\* capture_distance; the captured balls are appended to the end of the
\* inventory in their active order, one sucked event each, and the others
\* stay active in their order.
\* ------------------------------------------------------------------------
WithinCapture(b) ==
    LET dx == last.inputs.pointer[1] - b.position[1]
        dy == last.inputs.pointer[2] - b.position[2]
    IN  /\ config.capture_distance >= 0
        /\ dx * dx + dy * dy <= config.capture_distance * config.capture_distance

C5_Capture ==
    (Stepped /\ last.inputs.sucking_enabled /\ last.inputs.pointer # None) =>
        LET Near(b) == WithinCapture(b)
            Far(b) == ~WithinCapture(b)
            got == SelectSeq(last.mixing, Near)
        IN  /\ \A i \in 1..Len(last.mixing) :
                  LET b == last.mixing[i]
                  IN  /\ WithinCapture(b) <=> \E k \in 1..Len(inventory) : inventory[k] = b
                      /\ WithinCapture(b) <=> b.obj \notin Objs(balls)
            /\ inventory = last.spit_inventory \o got
            /\ balls = SelectSeq(last.mixing, Far)
            /\ EventIds("sucked") = IdSeq(got)

\* A ball exactly at capture_distance was captured behind an earlier capture
\* while another ball stayed active.
C5_Witness ==
    /\ Stepped /\ last.inputs.sucking_enabled /\ last.inputs.pointer # None
    /\ Len(EventsOfType("sucked")) >= 2
    /\ balls # <<>>
    /\ \E i \in 1..Len(inventory) :
          LET dx == last.inputs.pointer[1] - inventory[i].position[1]
              dy == last.inputs.pointer[2] - inventory[i].position[2]
          IN  /\ inventory[i].obj \in Objs(last.mixing)
              /\ dx * dx + dy * dy = config.capture_distance * config.capture_distance

\* ------------------------------------------------------------------------
\* C6.  The deletion zone is half-open: with a zone (x, y, w, h) set, the
\* deletion stage removes an active ball iff x <= px < x+w and y <= py < y+h;
\* each removed ball gives one deleted event with its id and is afterwards
\* in neither collection; with no zone set nothing is deleted.
\* ------------------------------------------------------------------------
InsideHalfOpen(b, z) ==
    /\ z[1] <= b.position[1] /\ b.position[1] < z[1] + z[3]
    /\ z[2] <= b.position[2] /\ b.position[2] < z[2] + z[4]

C6_DeletionZone ==
    Stepped =>
        IF deletion_zone = None
        THEN /\ EventsOfType("deleted") = <<>>
             /\ last.deletion = last.boundaries
        ELSE LET In(b) == InsideHalfOpen(b, deletion_zone)
                 Out(b) == ~InsideHalfOpen(b, deletion_zone)
                 gone == SelectSeq(last.boundaries, In)
             IN  /\ last.deletion = SelectSeq(last.boundaries, Out)
                 /\ EventIds("deleted") = IdSeq(gone)
                 /\ Objs(gone) \cap (Objs(balls) \cup Objs(inventory)) = {}
                 /\ \A i \in 1..Len(last.boundaries) :
                       Out(last.boundaries[i]) =>
                           last.boundaries[i].obj \in Objs(balls) \cup Objs(inventory)

\* A step deleted a ball inside the zone and kept a ball that sat exactly on
\* an upper edge of the zone.
C6_Witness ==
    /\ Stepped
    /\ deletion_zone # None
    /\ EventsOfType("deleted") # <<>>
    /\ \E i \in 1..Len(last.deletion) :
          last.deletion[i].position[1] = deletion_zone[1] + deletion_zone[3]

\* ------------------------------------------------------------------------
\* C7.  Colour mixing uses the pre-stage snapshot: one mixed event for every
\* unordered pair of active balls that touch (centre distance <= sum of the
\* radii) and none for other pairs; color_before is the two balls' colours at
\* the start of the stage and color_after their component-wise average.
\* Fails once two balls share an id (C1): the snapshot is keyed by id.
\* ------------------------------------------------------------------------
Touching(a, b) ==
    LET dx == a.position[1] - b.position[1]
        dy == a.position[2] - b.position[2]
    IN  dx * dx + dy * dy <= (a.radius + b.radius) * (a.radius + b.radius)

Average(c1, c2) ==
    << (c1[1] + c2[1]) \div 2, (c1[2] + c2[2]) \div 2, (c1[3] + c2[3]) \div 2 >>

C7_MixFromSnapshot ==
    Stepped =>
        LET pre == last.deletion
            mixed == EventsOfType("mixed")
            pairs == {p \in (1..Len(pre)) \X (1..Len(pre)) :
                         p[1] < p[2] /\ Touching(pre[p[1]], pre[p[2]])}
        IN  /\ Len(mixed) = Cardinality(pairs)
            /\ \A p \in pairs :
                  \E k \in 1..Len(mixed) :
                      /\ mixed[k].ball_ids = <<pre[p[1]].id, pre[p[2]].id>>
                      /\ mixed[k].color_before = <<pre[p[1]].color, pre[p[2]].color>>
                      /\ mixed[k].color_after = Average(pre[p[1]].color, pre[p[2]].color)

\* ------------------------------------------------------------------------
\* C8.  The mixing stage is order-independent: whatever the order of the
\* active collection, every ball ends the stage with the same colour.
\* Fails: colours are written pair by pair, so a ball with two partners
\* keeps the mix with the partner the scan visits last.
\* ------------------------------------------------------------------------
Perms(n) == {p \in [1..n -> 1..n] : \A i, j \in 1..n : i # j => p[i] # p[j]}

C8_MixOrderIndependent ==
    Stepped =>
        LET pre == last.deletion
        IN  \A p \in Perms(Len(pre)) :
                LET shuffled == [i \in 1..Len(pre) |-> pre[p[i]]]
                    mixed == _apply_color_mixing(shuffled, <<>>).balls
                IN  \A i \in 1..Len(pre) : mixed[i].color = last.mixing[p[i]].color

\* ------------------------------------------------------------------------
\* C9.  After any sequence of add_ball / add_random_ball and step calls every
\* colour component of every ball, active or in the inventory, is in [0, 1],
\* whatever colours were passed to add_ball.
\* ------------------------------------------------------------------------
C9_ColorsInRange ==
    \A i \in 1..Len(AllBalls) :
        \A k \in 1..3 : 0 <= AllBalls[i].color[k] /\ AllBalls[i].color[k] <= ColorOne

\* The ball that was added with the colour (0, 2, -1) took part in a mix as
\* (0, 1, 0), and the inventory holds a ball.
C9_Witness ==
    /\ Stepped
    /\ inventory # <<>>
    /\ \E k \in 1..Len(EventsOfType("mixed")) :
          EventsOfType("mixed")[k].color_before[1] = <<0, ColorOne, 0>>

\* ------------------------------------------------------------------------
\* C10.  step(dt = 0) with a spit request and a non-empty inventory.
\* ------------------------------------------------------------------------
ZeroDtSpit ==
    /\ Stepped
    /\ last.dt = 0
    /\ last.inputs.spit_requests # <<>>
    /\ last.pre_inventory # <<>>

\* The positions in last.spit_balls of the balls the step spat.
SpatAt == (Len(last.pre_balls) + 1)..Len(last.spit_balls)

\* Every spat ball has its spat event, with the position and velocity the
\* spit gave it.
SpatEventsLogged ==
    /\ Len(EventsOfType("spat")) = Cardinality(SpatAt)
    /\ \A i \in SpatAt :
          LET e == EventsOfType("spat")[i - Len(last.pre_balls)]
          IN  /\ e.ball_id = last.spit_balls[i].id
              /\ e.position = last.spit_balls[i].position
              /\ e.velocity = last.spit_balls[i].velocity

\* C10 as stated: every ball that was active keeps its position and
\* velocity, and every spat ball is active at the end of the step with the
\* position and velocity of the spit and its spat event, whatever the
\* boundary mode, deletion zone and suction.
\* Fails: the later stages of the same step act on these balls.
C10_ZeroDtSpitUntouched ==
    ZeroDtSpit =>
        /\ \A i \in 1..Len(last.pre_balls) :
              \A k \in 1..Len(AllBalls) :
                  AllBalls[k].obj = last.pre_balls[i].obj =>
                      /\ AllBalls[k].position = last.pre_balls[i].position
                      /\ AllBalls[k].velocity = last.pre_balls[i].velocity
        /\ \A i \in SpatAt :
              \E k \in 1..Len(balls) :
                  /\ balls[k].obj = last.spit_balls[i].obj
                  /\ balls[k].position = last.spit_balls[i].position
                  /\ balls[k].velocity = last.spit_balls[i].velocity
        /\ SpatEventsLogged

\* No later stage of a dt = 0 step has a reason to touch this ball: it lies
\* fully inside the world, no positive max_speed is exceeded, it is outside
\* the deletion zone and outside the reach of an enabled vacuum.
Settled(b) ==
    /\ b.radius <= b.position[1] /\ b.position[1] <= config.width - b.radius
    /\ b.radius <= b.position[2] /\ b.position[2] <= config.height - b.radius
    /\ \/ config.max_speed <= 0
       \/ b.velocity[1] * b.velocity[1] + b.velocity[2] * b.velocity[2]
              <= config.max_speed * config.max_speed
    /\ deletion_zone # None => ~InsideHalfOpen(b, deletion_zone)
    /\ (last.inputs.sucking_enabled /\ last.inputs.pointer # None) => ~WithinCapture(b)

\* C10 amended: the step advances zero motion (integration leaves every
\* position where the spit stage left it) and processes the spit (at least
\* one ball is appended to the active collection, each with its spat event
\* carrying the position and velocity of the spit); the stages after it
\* still run, so a ball, spat or active before, ends the step active with
\* that position and velocity whenever it is settled.
C10_ZeroDtSpitSettled ==
    ZeroDtSpit =>
        /\ SpatAt # {}
        /\ SpatEventsLogged
        /\ \A i \in 1..Len(last.spit_balls) :
              /\ last.integrate[i].position = last.spit_balls[i].position
              /\ Settled(last.spit_balls[i]) =>
                    \E k \in 1..Len(balls) :
                        /\ balls[k].obj = last.spit_balls[i].obj
                        /\ balls[k].position = last.spit_balls[i].position
                        /\ balls[k].velocity = last.spit_balls[i].velocity

\* A dt = 0 step spat a ball that stayed settled, next to a settled ball that
\* was moving when the step began.
C10_Witness ==
    /\ ZeroDtSpit
    /\ \E i \in SpatAt : Settled(last.spit_balls[i])
    /\ \E i \in 1..Len(last.pre_balls) :
          /\ Settled(last.pre_balls[i])
          /\ last.pre_balls[i].velocity # <<0, 0>>

\* ------------------------------------------------------------------------
\* C11.  Spit requests are consumed exactly once: after step returns, the
\* spit_requests list of the InputState that was passed is empty, and a
\* later step that is passed the same object spits no ball for those
\* requests, however many balls the inventory holds.
\* ------------------------------------------------------------------------
C11_SpitConsumedOnce ==
    Stepped =>
        /\ last.inputs_after.spit_requests = <<>>
        /\ last.reused =>
              /\ EventsOfType("spat") = <<>>
              /\ last.spit_balls = last.pre_balls
              /\ last.spit_inventory = last.pre_inventory
              /\ SubSeq(inventory, 1, Len(last.pre_inventory)) = last.pre_inventory

\* An object whose requests found the inventory empty was passed again
\* when the inventory held a ball.
C11_Witness ==
    /\ Stepped
    /\ last.reused
    /\ last.given.spit_requests # <<>>
    /\ last.pre_inventory # <<>>

\* ------------------------------------------------------------------------
\* C12.  Bounce mode: every ball that enters the boundary stage with
\* position.x - radius < 0 and velocity.x < 0 leaves it with
\* position.x = radius and velocity.x negated; symmetrically for the right,
\* top and bottom walls.
\* Fails: the four tests run in sequence, so a ball wider than the world
\* that bounces off the left wall is bounced again by the right-wall test.
\* ------------------------------------------------------------------------
C12_Bounce ==
    (Stepped /\ config.boundary = "bounce") =>
        \A i \in 1..Len(last.integrate) :
            LET a == last.integrate[i]
                b == last.boundaries[i]
                r == a.radius
            IN  /\ (a.position[1] - r < 0 /\ a.velocity[1] < 0) =>
                       (b.position[1] = r /\ b.velocity[1] = -a.velocity[1])
                /\ (a.position[1] + r > config.width /\ a.velocity[1] > 0) =>
                       (b.position[1] = config.width - r
                        /\ b.velocity[1] = -a.velocity[1])
                /\ (a.position[2] - r < 0 /\ a.velocity[2] < 0) =>
                       (b.position[2] = r /\ b.velocity[2] = -a.velocity[2])
                /\ (a.position[2] + r > config.height /\ a.velocity[2] > 0) =>
                       (b.position[2] = config.height - r
                        /\ b.velocity[2] = -a.velocity[2])

\* ------------------------------------------------------------------------
\* C13.  Wrap mode, per axis independently: a ball that enters the boundary
\* stage with px > width + radius leaves it with px = -radius, one with
\* px < -radius leaves it with px = width + radius, one in between is not
\* moved; velocity is never changed; so after the stage
\* -radius <= px <= width + radius (the same for y with height).
\* ------------------------------------------------------------------------
WrappedAxis(pre, post, r, size) ==
    /\ pre > size + r => post = -r
    /\ pre < -r => post = size + r
    /\ (-r <= pre /\ pre <= size + r) => post = pre
    /\ -r <= post /\ post <= size + r

C13_Wrap ==
    (Stepped /\ config.boundary = "wrap") =>
        /\ Len(last.boundaries) = Len(last.integrate)
        /\ \A i \in 1..Len(last.integrate) :
              LET a == last.integrate[i]
                  b == last.boundaries[i]
              IN  /\ WrappedAxis(a.position[1], b.position[1], a.radius, config.width)
                  /\ WrappedAxis(a.position[2], b.position[2], a.radius, config.height)
                  /\ b.velocity = a.velocity
                  /\ b = [a EXCEPT !.position = b.position]

\* A moving ball wrapped from beyond the right margin to the left one while
\* its y, inside the margins, stayed.
C13_Witness ==
    /\ Stepped /\ config.boundary = "wrap"
    /\ \E i \in 1..Len(last.integrate) :
          LET a == last.integrate[i]
              b == last.boundaries[i]
          IN  /\ a.position[1] > config.width + a.radius
              /\ b.position[1] = -a.radius
              /\ a.position[2] > config.height
              /\ b.position[2] = a.position[2]
              /\ a.velocity # <<0, 0>>

\* ------------------------------------------------------------------------
\* C14.  Wrap round trips.
\* ------------------------------------------------------------------------
\* C14 as stated: the position after wrapping is congruent to the position
\* before wrapping modulo (width + 2*radius).
\* Fails: a wrapped ball is put exactly on the opposite margin, whatever
\* its overshoot was; width + radius + 1 goes to -radius.
C14_WrapCongruent ==
    (Stepped /\ config.boundary = "wrap") =>
        \A i \in 1..Len(last.integrate) :
            LET a == last.integrate[i]
                b == last.boundaries[i]
            IN  /\ (b.position[1] - a.position[1]) % (config.width + 2 * a.radius) = 0
                /\ (b.position[2] - a.position[2]) % (config.height + 2 * a.radius) = 0

\* The margin edge a coordinate lies beyond, or the coordinate itself when
\* it lies between the margins.
CutToMargins(p, r, size) == Min(Max(p, -r), size + r)

\* C14 amended: the position after wrapping lies between the margins and is
\* congruent modulo (width + 2*radius) to the position before wrapping with
\* its overshoot beyond the margin cut off.
C14_WrapCongruentToMargin ==
    (Stepped /\ config.boundary = "wrap") =>
        \A i \in 1..Len(last.integrate) :
            LET a == last.integrate[i]
                b == last.boundaries[i]
                r == a.radius
            IN  /\ (b.position[1] - CutToMargins(a.position[1], r, config.width))
                       % (config.width + 2 * r) = 0
                /\ (b.position[2] - CutToMargins(a.position[2], r, config.height))
                       % (config.height + 2 * r) = 0
                /\ b.position[1] \in (-r)..(config.width + r)
                /\ b.position[2] \in (-r)..(config.height + r)

\* A ball wrapped across the left margin with an overshoot that is not a
\* multiple of the period.
C14_Witness ==
    /\ Stepped /\ config.boundary = "wrap"
    /\ \E i \in 1..Len(last.integrate) :
          LET a == last.integrate[i]
              b == last.boundaries[i]
          IN  /\ a.position[1] < -a.radius
              /\ b.position[1] = config.width + a.radius
              /\ (-a.radius - a.position[1]) % (config.width + 2 * a.radius) # 0

\* ------------------------------------------------------------------------
\* C15.  An unrecognised boundary mode falls back to clamping.
\* ------------------------------------------------------------------------
UnknownMode == config.boundary \notin {"wrap", "bounce"}

\* C15 as stated: after the boundary stage every active ball's position
\* lies in [radius, width - radius] x [radius, height - radius] and its
\* velocity is what integration left.
\* Fails: for a ball wider than the world the interval is empty; the ball
\* ends at width - radius.
C15_UnknownModeClamps ==
    (Stepped /\ UnknownMode) =>
        \A i \in 1..Len(last.integrate) :
            LET a == last.integrate[i]
                b == last.boundaries[i]
                r == a.radius
            IN  /\ r <= b.position[1] /\ b.position[1] <= config.width - r
                /\ r <= b.position[2] /\ b.position[2] <= config.height - r
                /\ b.velocity = a.velocity

\* One axis of the fallback: a coordinate inside [r, size - r] stays, one
\* outside goes to the nearer end; a ball that does not fit (2r > size)
\* goes to size - r.
ClampedAxis(pre, post, r, size) ==
    IF 2 * r <= size
    THEN /\ r <= post /\ post <= size - r
         /\ (r <= pre /\ pre <= size - r) => post = pre
         /\ pre < r => post = r
         /\ pre > size - r => post = size - r
    ELSE post = size - r

\* C15 amended: for any mode string other than "wrap" and "bounce" the
\* boundary stage leaves every ball that fits the world (2*radius <= width,
\* 2*radius <= height) in [radius, width - radius] x [radius, height -
\* radius], moved no further than to the nearer end; on an axis the ball
\* does not fit it ends at size - radius; the velocity is what integration
\* left.
C15_UnknownModeClampsFitting ==
    (Stepped /\ UnknownMode) =>
        /\ Len(last.boundaries) = Len(last.integrate)
        /\ \A i \in 1..Len(last.integrate) :
              LET a == last.integrate[i]
                  b == last.boundaries[i]
              IN  /\ ClampedAxis(a.position[1], b.position[1], a.radius, config.width)
                  /\ ClampedAxis(a.position[2], b.position[2], a.radius, config.height)
                  /\ b.velocity = a.velocity

\* Under a mode that is neither "wrap", "bounce" nor "clamp", a ball whose
\* velocity integration had changed was moved from beyond the right end to
\* width - radius and kept that velocity.
C15_Witness ==
    /\ Stepped /\ config.boundary \in {"Wrap", ""}
    /\ \E i \in 1..Len(last.integrate) :
          LET a == last.integrate[i]
              b == last.boundaries[i]
          IN  /\ 2 * a.radius <= config.width
              /\ a.position[1] > config.width - a.radius
              /\ b.position[1] = config.width - a.radius
              /\ a.velocity # last.pre_balls[i].velocity
              /\ b.velocity = a.velocity
              /\ a.velocity[1] # 0

\* ------------------------------------------------------------------------
\* C16.  remove_ball_by_id(id): if an active ball has the id, exactly one
\* such ball, the first, leaves the active collection and is returned, and
\* the others keep their order; if none has it the call returns nothing and
\* leaves the active collection unchanged.  Either way the inventory, the
\* deletion zone and the next-id counter are unchanged.
\* ------------------------------------------------------------------------
C16_RemoveById ==
    [][last'.op = "remove" =>
          LET hits == {i \in 1..Len(balls) : balls[i].id = last'.ball_id}
          IN  /\ hits # {} =>
                    \E first \in hits :
                        /\ \A k \in hits : first <= k
                        /\ last'.returned = balls[first]
                        /\ Len(balls') = Len(balls) - 1
                        /\ \A i \in 1..(first - 1) : balls'[i] = balls[i]
                        /\ \A i \in (first + 1)..Len(balls) : balls'[i - 1] = balls[i]
              /\ hits = {} => (last'.returned = None /\ balls' = balls)
              /\ inventory' = inventory
              /\ deletion_zone' = deletion_zone
              /\ next_id' = next_id]_vars

\* A call returned a ball while a second active ball with the same id
\* stayed and the inventory held a ball.
C16_Witness ==
    /\ last.op = "remove"
    /\ last.returned # None
    /\ \E i \in 1..Len(balls) : balls[i].id = last.ball_id
    /\ inventory # <<>>

\* ------------------------------------------------------------------------
\* C18.  Colours are written pair by pair while reads come from the
\* snapshot: after the mixing stage a ball that touched no other ball keeps
\* its colour, and a ball that touched one or more balls has the average of
\* its own pre-stage colour and the pre-stage colour of the last partner
\* the scan visited (i ascending, j > i ascending over the active list).
\* Fails once two balls share an id (C1): the snapshot is keyed by id, so
\* the colour read for a ball may be that of the other ball with its id.
\* ------------------------------------------------------------------------
\* The positions in pre of the balls that touch the ball at position k.
Partners(pre, k) == {m \in 1..Len(pre) : m # k /\ Touching(pre[k], pre[m])}

\* The partner of k that the scan visits last: the pairs (i, k) with i < k
\* come before the pairs (k, j) with j > k, each in ascending order, so it
\* is the partner with the greatest position.
LastPartner(pre, k) == CHOOSE m \in Partners(pre, k) : \A n \in Partners(pre, k) : n <= m

C18_MixKeepsLastPartner ==
    Stepped =>
        LET pre == last.deletion
        IN  /\ Len(last.mixing) = Len(pre)
            /\ \A k \in 1..Len(pre) :
                  last.mixing[k].color =
                      IF Partners(pre, k) = {}
                      THEN pre[k].color
                      ELSE Average(pre[k].color, pre[LastPartner(pre, k)].color)

\* ------------------------------------------------------------------------
\* C19.  The pipeline order is fixed within a step (spit, suction,
\* integration, boundary, deletion, mixing, capture).  A ball is the object,
\* whatever id it carries.
\*  (a) a ball that after boundary resolution lies inside the deletion zone
\*      and within capture_distance of an active suction pointer is deleted
\*      and not captured;
\*  (b) a deleted ball takes part in no mixed event of the step: the mixed
\*      events are those of the touching pairs among the balls that
\*      deletion left;
\*  (c) a ball captured in the step took part in the step's mixing first;
\*  (d) a ball spat in the step goes through the step's integration,
\*      boundary, deletion, mixing and capture stages.
\* ------------------------------------------------------------------------
Vacuum == last.inputs.sucking_enabled /\ last.inputs.pointer # None

\* The balls the capture stage of the last step put into the inventory.
CapturedNow == SubSeq(inventory, Len(last.spit_inventory) + 1, Len(inventory))

\* The objects the deletion stage of the last step removed.
DeletedObjs == Objs(last.boundaries) \ Objs(last.deletion)

\* The position in seq of the ball that is the object obj, 0 if there is none.
At(seq, obj) ==
    IF obj \in Objs(seq) THEN CHOOSE k \in 1..Len(seq) : seq[k].obj = obj ELSE 0

MixedWith(id) ==
    \E k \in 1..Len(EventsOfType("mixed")) :
        id \in {EventsOfType("mixed")[k].ball_ids[1], EventsOfType("mixed")[k].ball_ids[2]}

C19_DeletedNotCaptured ==
    \A i \in 1..Len(last.boundaries) :
        LET b == last.boundaries[i]
        IN  (last.zone # None /\ InsideHalfOpen(b, last.zone)
             /\ Vacuum /\ WithinCapture(b)) =>
                /\ b.obj \notin Objs(inventory) \cup Objs(balls)
                /\ \E k \in 1..Len(EventsOfType("deleted")) :
                       EventsOfType("deleted")[k].ball_id = b.id
                /\ Len(EventsOfType("sucked")) = Len(CapturedNow)

C19_DeletedNotMixed ==
    LET pre == last.deletion
        mixed == EventsOfType("mixed")
        pairs == {p \in (1..Len(pre)) \X (1..Len(pre)) :
                     p[1] < p[2] /\ Touching(pre[p[1]], pre[p[2]])}
    IN  /\ DeletedObjs \cap Objs(last.mixing) = {}
        /\ Len(mixed) = Cardinality(pairs)
        /\ \A k \in 1..Len(mixed) :
              \E p \in pairs : mixed[k].ball_ids = <<pre[p[1]].id, pre[p[2]].id>>

C19_CapturedAfterMixing ==
    \A n \in 1..Len(CapturedNow) :
        LET c == CapturedNow[n]
            k == At(last.deletion, c.obj)
        IN  /\ k # 0
            /\ last.mixing[k] = c
            /\ Partners(last.deletion, k) # {} => MixedWith(c.id)

C19_SpatGoesThrough ==
    \A i \in SpatAt :
        LET s == last.spit_balls[i]
            a == last.integrate[i]
            b == last.boundaries[i]
            k == At(last.deletion, s.obj)
        IN  /\ a.obj = s.obj /\ b.obj = s.obj
            /\ a.position = << s.position[1] + a.velocity[1] * last.dt,
                               s.position[2] + a.velocity[2] * last.dt >>
            /\ config.boundary = "wrap" =>
                  WrappedAxis(a.position[1], b.position[1], a.radius, config.width)
            /\ UnknownMode =>
                  ClampedAxis(a.position[1], b.position[1], a.radius, config.width)
            /\ k = 0 <=> (last.zone # None /\ InsideHalfOpen(b, last.zone))
            /\ k # 0 =>
                  /\ Partners(last.deletion, k) # {} => MixedWith(s.id)
                  /\ (Vacuum /\ WithinCapture(last.mixing[k])) =>
                        inventory[Len(inventory) - Len(CapturedNow)
                                  + At(CapturedNow, s.obj)] = last.mixing[k]
                  /\ ~(Vacuum /\ WithinCapture(last.mixing[k])) =>
                        s.obj \in Objs(balls)

C19_PipelineOrder ==
    Stepped =>
        /\ C19_DeletedNotCaptured
        /\ C19_DeletedNotMixed
        /\ C19_CapturedAfterMixing
        /\ C19_SpatGoesThrough

\* One step spat a ball that moved, deleted a ball that lay inside the zone
\* within capture distance of the active pointer, and captured a ball that
\* had mixed with another in the same step.
C19_Witness ==
    /\ Stepped /\ Vacuum /\ last.zone # None
    /\ \E i \in SpatAt : last.integrate[i].position # last.spit_balls[i].position
    /\ \E i \in 1..Len(last.boundaries) :
          /\ InsideHalfOpen(last.boundaries[i], last.zone)
          /\ WithinCapture(last.boundaries[i])
    /\ \E n \in 1..Len(CapturedNow) :
          Partners(last.deletion, At(last.deletion, CapturedNow[n].obj)) # {}

\* ------------------------------------------------------------------------
\* C20.  In the event log returned by one step the events appear in stage
\* order: every spat event before every deleted event, these before every
\* mixed event, these before every sucked event; a ball id appears in at
\* most one deleted event and at most one sucked event of a step and never
\* in both; and the log holds no event of an earlier step: its events are
\* those of the balls this step spat, deleted, mixed and captured.
\* Fails once two balls share an id (C1): both can be deleted, or one
\* deleted and one captured, in the same step.
\* ------------------------------------------------------------------------
StageOf(type) ==
    CASE type = "spat" -> 1
      [] type = "deleted" -> 2
      [] type = "mixed" -> 3
      [] type = "sucked" -> 4

C20_EventLog ==
    Stepped =>
        LET ev == last.events
            deleted == EventIds("deleted")
            sucked == EventIds("sucked")
            pairs == {p \in (1..Len(last.deletion)) \X (1..Len(last.deletion)) :
                         p[1] < p[2] /\ Touching(last.deletion[p[1]], last.deletion[p[2]])}
        IN  /\ \A i, j \in 1..Len(ev) :
                  i < j => StageOf(ev[i].type) <= StageOf(ev[j].type)
            /\ \A i, j \in 1..Len(deleted) : i # j => deleted[i] # deleted[j]
            /\ \A i, j \in 1..Len(sucked) : i # j => sucked[i] # sucked[j]
            /\ \A i \in 1..Len(deleted) : \A j \in 1..Len(sucked) : deleted[i] # sucked[j]
            /\ Len(EventsOfType("spat")) = Len(last.spit_balls) - Len(last.pre_balls)
            /\ Len(deleted) = Len(last.boundaries) - Len(last.deletion)
            /\ Len(EventsOfType("mixed")) = Cardinality(pairs)
            /\ Len(sucked) = Len(inventory) - Len(last.spit_inventory)
            /\ Len(ev) = Len(EventsOfType("spat")) + Len(deleted)
                            + Len(EventsOfType("mixed")) + Len(sucked)

\* ------------------------------------------------------------------------
\* C21.  Inventory frame.  A ball is the object, whatever id it carries.
\* ------------------------------------------------------------------------
\* The fields of a ball a step could change.
SameState(a, b) ==
    /\ a.position = b.position
    /\ a.velocity = b.velocity
    /\ a.color = b.color
    /\ a.radius = b.radius
    /\ a.mass = b.mass

\* Every ball of the sequence of objects held that is in the inventory
\* after the step is there as it was before, and two such balls stand in
\* the inventory in the order they had.
HeldUnchanged(held) ==
    /\ \A i \in 1..Len(held) :
          \A k \in 1..Len(inventory) :
              inventory[k].obj = held[i].obj => SameState(inventory[k], held[i])
    /\ \A i, j \in 1..Len(held) :
          (i < j /\ held[i].obj \in Objs(inventory) /\ held[j].obj \in Objs(inventory)) =>
              At(inventory, held[i].obj) < At(inventory, held[j].obj)

\* The inventory loses balls only from its front, through spit requests,
\* and gains balls only at its end, through capture: the spit stage leaves
\* a tail of the inventory (all of it without requests), and the step ends
\* with that tail followed by balls that the mixing stage left active, and
\* by nothing without an enabled vacuum with a pointer.
FrontOutEndIn ==
    LET n == Len(last.pre_inventory)
        m == Len(last.spit_inventory)
        gained == SubSeq(inventory, m + 1, Len(inventory))
    IN  /\ m <= n
        /\ last.spit_inventory = SubSeq(last.pre_inventory, n - m + 1, n)
        /\ last.inputs.spit_requests = <<>> => m = n
        /\ Len(last.spit_balls) = Len(last.pre_balls) + (n - m)
        /\ \A i \in 1..(n - m) :
              last.spit_balls[Len(last.pre_balls) + i].obj = last.pre_inventory[i].obj
        /\ Len(inventory) >= m
        /\ SubSeq(inventory, 1, m) = last.spit_inventory
        /\ \A k \in 1..Len(gained) :
              \E i \in 1..Len(last.mixing) : last.mixing[i] = gained[k]
        /\ ~Vacuum => gained = <<>>
        /\ (last.inputs.spit_requests = <<>> /\ ~Vacuum) =>
              inventory = last.pre_inventory

\* No step changes the id, radius or mass of a ball: every ball the world
\* holds after the step was held before it, with these three fields.
IdentityKept ==
    \A k \in 1..Len(AllBalls) :
        \E i \in 1..Len(last.pre_balls \o last.pre_inventory) :
            LET was == (last.pre_balls \o last.pre_inventory)[i]
            IN  /\ was.obj = AllBalls[k].obj
                /\ was.id = AllBalls[k].id
                /\ was.radius = AllBalls[k].radius
                /\ was.mass = AllBalls[k].mass

\* C21 as stated: every ball that is in the inventory before and after a
\* step has the same position, velocity, colour, radius and mass and the
\* same relative order; the inventory loses balls only from its front
\* through spit requests and gains balls only at its end through capture,
\* so a step with no spit requests and with suction disabled or no pointer
\* leaves the inventory unchanged; no step changes the id, radius or mass of
\* a ball.
\* Fails: a ball that the step spits within capture_distance of the active
\* pointer is captured again by the same step; it is in the inventory
\* before and after, with the position and velocity of the spit, behind the
\* balls it stood in front of.
C21_InventoryFrame ==
    Stepped =>
        /\ HeldUnchanged(last.pre_inventory)
        /\ FrontOutEndIn
        /\ IdentityKept

\* C21 amended: the same for every ball that the step does not spit, that
\* is, every ball that is in the inventory before the step and after its
\* spit stage; a ball the step spits is an active ball from then on and
\* may be captured again, at the end of the inventory.
C21_InventoryFrameUnspat ==
    Stepped =>
        /\ HeldUnchanged(last.spit_inventory)
        /\ Objs(last.spit_inventory) \subseteq Objs(inventory)
        /\ FrontOutEndIn
        /\ IdentityKept

\* A step spat a ball and captured it again, moved, behind a ball that
\* stayed in the inventory.
C21_Witness ==
    /\ Stepped /\ Vacuum
    /\ last.spit_inventory # <<>>
    /\ \E i \in SpatAt :
          LET s == last.spit_balls[i]
          IN  /\ s.obj \in Objs(CapturedNow)
              /\ \E k \in 1..Len(last.pre_inventory) :
                    /\ last.pre_inventory[k].obj = s.obj
                    /\ last.pre_inventory[k].position # CapturedNow[At(CapturedNow, s.obj)].position

\* ------------------------------------------------------------------------
\* C22.  Bounce-mode containment: in a world with boundary "bounce" where
\* every ball satisfies 2*radius <= width and 2*radius <= height and is
\* added with its centre in [radius, width - radius] x [radius, height -
\* radius], after any sequence of steps with dt >= 0 and no spit requests
\* (any gravity, damping, suction and pointer) the centre of every active
\* ball is still in [radius, width - radius] x [radius, height - radius].
\* Fails: the right-wall test compares the float sum position + radius
\* with the width; a ball that integration moves past width - radius by
\* less than the rounding of that sum is not seen to penetrate the wall and
\* stays where it is.
\* ------------------------------------------------------------------------
Fits(b) == 2 * b.radius <= config.width /\ 2 * b.radius <= config.height

Contained(b) ==
    /\ b.radius <= b.position[1] /\ b.position[1] <= config.width - b.radius
    /\ b.radius <= b.position[2] /\ b.position[2] <= config.height - b.radius

C22_BounceContainment ==
    (config.boundary = "bounce" /\ \A i \in 1..Len(AllBalls) : Fits(AllBalls[i])) =>
        \A i \in 1..Len(balls) : Contained(balls[i])

====
